---- MODULE Spec2Model ----
(***************************************************************************)
(* Campus lost-and-found application: the client-side workflows that write *)
(* to the hosted backend (claims, items, notifications, messages) and the  *)
(* pure list filters.  Every handler is split at its awaits: one action    *)
(* per backend round trip, the synchronous code that follows the await     *)
(* being part of the same action.  A backend call may succeed or return an *)
(* error; both outcomes are drawn with \E ok \in BOOLEAN.                  *)
(***************************************************************************)
EXTENDS Integers, Sequences, FiniteSets, TLC

(***************************************************************************)
(* Fixtures and bounds                                                     *)
(***************************************************************************)
ClaimIds == {"c1", "c2", "c3"}
ClaimOrder == <<"c1", "c2", "c3">>      \* order of the rendered claim list
ItemIds == {"i1", "i2"}
OwnerItem == "i1"                       \* the item whose detail page is open
ClaimItem == [c \in ClaimIds |-> "i1"]    \* claims.item_id
Sessions == {"s1", "s2"}                \* browser tabs of the item owner
MaxActions == 2                         \* handler invocations started per run
MaxMsgs == 2                            \* messages rows stored per run
MaxItems == 2                           \* length of the list handed to the filters
MaxRuns == 2                            \* backup runs per run of the model
MaxBackups == 2                         \* backup files the restore utility lists
MaxConvCalls == 2                       \* getOrCreateConversation calls
MaxClaims == 2                          \* claim rows of one user on one item
MaxEvents == 4                          \* auth state change events
Users == {"u1", "u2", "adm"}            \* profiles; "adm" has role admin

ItemStatusValues == {"lost", "found", "claimed", "archived"}
ClaimStatusValues == {"pending", "approved", "rejected", "retracted"}
NotLoaded == {"loading"}                \* AdminPage before fetchClaims returned
NoRow == "none"                         \* the claim row does not exist yet
Absent == "absent"                      \* the claim is not in the local list
NullErr == "null"                       \* React state error === null

VARIABLES
    \* ---- hosted backend ----
    dbClaim,      \* claims.status per claim id (NoRow before the insert)
    dbItem,       \* items.status per item id (NoRow before the insert)
    dbNotif,      \* notifications rows: [user_id, claim_id, type]
    itemWrites,   \* every value a client has sent as items.status
    \* ---- ManageClaimsClient (item owner) ----
    view,         \* component state per session: claims, itemStatus, error
    inv,          \* handleClaimAction invocations per session and claim
    started,      \* number of handler invocations started so far
    \* ---- AdminPage (claims review) ----
    adminClaims,  \* state `claims` (ids of the listed claims), or NotLoaded
    adminInv,     \* handleAction invocations per claim
    \* ---- messaging ----
    conv,         \* the conversation row and its item's owner
    dbMessages,   \* number of messages rows of the conversation (ids 1..n)
    newMessageNotifs, \* new_message notifications rows per user_id
    send,         \* the sendMessage call in progress or last completed
    messages,     \* ChatPage state `messages` (ids in display order)
    polls,        \* fetchMessages results in flight (row count each query saw)
    rtQueue,      \* INSERT events the realtime channel has yet to deliver
    channel,      \* "none" | "subscribed" | "dummy"
    mounted,      \* ChatPage is mounted
    \* ---- item forms ----
    form,         \* the open form: kind, item and its status field
    \* ---- list filters ----
    items,        \* the list handed to applyFilters / applySearch
    filters,      \* FilterState
    shown,        \* the filtered list once computed, else NotComputed
    \* ---- list search ----
    searchTerm,   \* the text of the search box
    results,      \* the searched list once computed, else NotComputed
    \* ---- backup script ----
    backupDir,    \* the .sql files of BACKUP_DIR: [type, day, n], n in creation order
    backupRun,    \* the calendar day and the outcome of the last backup run
    \* ---- restore utility ----
    restore,      \* the restore run: position, answers given, whether psql ran
    \* ---- SupabaseListener ----
    authSession,  \* the browser's auth session, which the server reads from the cookies
    listener,     \* the listener's prop, the refreshes it asked for, the last event
    \* ---- ItemDetailActions of a claimer ----
    userClaims,   \* backend: the claims of one user on one item, oldest first
    detail,       \* per session: the component's state and its handleClaim calls
    \* ---- getOrCreateConversation ----
    dbConversations,  \* backend: the rows of the conversations table
    convCall,     \* the getOrCreateConversation calls: position, arguments, outcome
    \* ---- admin dashboard ----
    dash          \* AdminPage: role check, position of fetchData, loading flags

backendVars == <<dbClaim, dbItem, dbNotif, itemWrites>>
ownerVars == <<view, inv>>
adminVars == <<adminClaims, adminInv>>
sendVars == <<conv, dbMessages, newMessageNotifs, send>>
chatVars == <<messages, polls, rtQueue, channel, mounted>>
formVars == <<form>>
filterVars == <<items, filters, shown>>
searchVars == <<searchTerm, results>>
backupVars == <<backupDir, backupRun>>
restoreVars == <<restore>>
listenerVars == <<authSession, listener>>
detailVars == <<userClaims, detail>>
conversationVars == <<dbConversations, convCall>>
dashVars == <<dash>>
vars == <<dbClaim, dbItem, dbNotif, itemWrites, view, inv, started,
          adminClaims, adminInv, conv, dbMessages, newMessageNotifs, send,
          messages, polls, rtQueue, channel, mounted, form,
          items, filters, shown, searchTerm, results, backupDir, backupRun,
          restore, authSession, listener, userClaims, detail,
          dbConversations, convCall, dash>>

\* The parts of the application that share no state with the others.
laterVars == <<searchVars, backupVars, restoreVars, listenerVars, detailVars,
               conversationVars, dashVars>>

\* What the actions of one part of the application leave alone.
exceptClaims == <<sendVars, chatVars, formVars, filterVars, laterVars>>
exceptMessaging == <<dbClaim, dbItem, dbNotif, itemWrites, ownerVars, adminVars,
                     started, formVars, filterVars, laterVars>>
exceptForms == <<dbClaim, dbNotif, ownerVars, adminVars, started, sendVars, chatVars,
                 filterVars, laterVars>>
exceptFilters == <<backendVars, ownerVars, adminVars, started, sendVars, chatVars,
                   formVars, laterVars>>
coreVars == <<backendVars, ownerVars, adminVars, started, sendVars, chatVars, formVars>>
exceptSearch == <<coreVars, filters, shown, backupVars, restoreVars, listenerVars,
                  detailVars, conversationVars, dashVars>>
exceptBackup == <<coreVars, filterVars, searchVars, restoreVars, listenerVars, detailVars,
                  conversationVars, dashVars>>
exceptRestore == <<coreVars, filterVars, searchVars, backupVars, listenerVars, detailVars,
                   conversationVars, dashVars>>
exceptListener == <<coreVars, filterVars, searchVars, backupVars, restoreVars, detailVars,
                    conversationVars, dashVars>>
exceptDetail == <<coreVars, filterVars, searchVars, backupVars, restoreVars, listenerVars,
                  conversationVars, dashVars>>
exceptConversations == <<coreVars, filterVars, searchVars, backupVars, restoreVars,
                         listenerVars, detailVars, dashVars>>
exceptDash == <<coreVars, filterVars, searchVars, backupVars, restoreVars, listenerVars,
                detailVars, conversationVars>>

(***************************************************************************)
(* Backend fixtures                                                        *)
(***************************************************************************)
Claimer == [c \in ClaimIds |-> IF c = "c1" THEN "u1" ELSE IF c = "c2" THEN "u2" ELSE "u3"]
ItemOwner == [i \in ItemIds |-> "owner"]

Notification(user, claim, type) == [user_id |-> user, claim_id |-> claim, type |-> type]

(***************************************************************************)
(* ManageClaimsClient: component state and handleClaimAction               *)
(***************************************************************************)
IdleInv ==
    [pc |-> "idle", action |-> "none",
     snap |-> [d \in ClaimIds |-> Absent],   \* `claims` captured by the closure
     others |-> <<>>,                        \* otherPendingClaims still to reject
     ran |-> FALSE,                          \* an invocation has completed
     anyErr |-> FALSE,                       \* some backend call returned an error
     itemErr |-> FALSE,                      \* the item status update returned an error
     pend0 |-> {},                           \* siblings pending in the backend at the click
     changed |-> {},                         \* claims whose backend status it wrote
     notified |-> {}]                        \* claims it inserted a notification for

UnloadedView ==
    [loaded |-> FALSE, claims |-> [d \in ClaimIds |-> Absent],
     itemStatus |-> "lost", error |-> NullErr]

\* const newClaimStatus = action === "approve" ? 'approved' : 'rejected'
newClaimStatus(action) == IF action = "approve" THEN "approved" ELSE "rejected"

\* The Approve / Reject buttons of a claim card are rendered and enabled.
ActionButtonsShown(s, c) ==
    /\ view[s].loaded
    /\ view[s].claims[c] = "pending"
    /\ view[s].itemStatus # "claimed"
    /\ inv[s][c].pc = "idle"                 \* disabled={isLoading[claim.id]}

\* claims.filter((c) => c.id !== claimId && c.status === 'pending'), in list order
otherPendingClaims(snap, claimId) ==
    SelectSeq(ClaimOrder, LAMBDA d : d # claimId /\ snap[d] = "pending")

\* setClaims((prevClaims) => prevClaims.map(...)): the local refresh
RefreshedClaims(prevClaims, claimId, action) ==
    [d \in ClaimIds |->
        IF prevClaims[d] = Absent THEN Absent
        ELSE IF d = claimId THEN newClaimStatus(action)
        ELSE IF action = "approve" /\ prevClaims[d] = "pending" THEN "rejected"
        ELSE prevClaims[d]]

\* The tail of the handler: refresh the local list, clear isLoading.
FinishedView(v, claimId, action) ==
    [v EXCEPT !.claims = RefreshedClaims(v.claims, claimId, action)]

FinishedInv(r) ==
    [r EXCEPT !.pc = "idle", !.ran = TRUE, !.others = <<>>,
              !.snap = [d \in ClaimIds |-> Absent]]

\* Server render of the item page followed by the component mount.
PageLoad(s) ==
    /\ \A c \in ClaimIds : inv[s][c].pc = "idle"
    /\ view' = [view EXCEPT ![s] =
                  [loaded |-> TRUE,
                   claims |-> [d \in ClaimIds |->
                                 IF ClaimItem[d] = OwnerItem /\ dbClaim[d] # NoRow
                                 THEN dbClaim[d] ELSE Absent],
                   itemStatus |-> dbItem[OwnerItem],
                   error |-> NullErr]]
    /\ inv' = [inv EXCEPT ![s] = [c \in ClaimIds |-> IdleInv]]
    /\ UNCHANGED <<backendVars, started, adminVars, exceptClaims>>

\* handleClaim of another user: the claim insert and the owner's notification.
SubmitClaim(c) ==
    /\ dbClaim[c] = NoRow
    /\ dbClaim' = [dbClaim EXCEPT ![c] = "pending"]
    /\ \E ok \in BOOLEAN :
         dbNotif' = IF ok
                    THEN dbNotif \cup {Notification(ItemOwner[ClaimItem[c]], c, "new_claim")}
                    ELSE dbNotif
    /\ UNCHANGED <<dbItem, itemWrites, ownerVars, started, adminVars, exceptClaims>>

\* handleClaimAction up to its first await (the click on Approve or Reject).
ClaimClick(s, c, action) ==
    /\ ActionButtonsShown(s, c)
    /\ started < MaxActions
    /\ started' = started + 1
    /\ IF view[s].itemStatus = "claimed" /\ action = "approve"
       THEN /\ view' = [view EXCEPT ![s].error =
                          "This item has already been marked as claimed."]
            /\ inv' = inv
       ELSE /\ view' = [view EXCEPT ![s].error = NullErr]
            /\ inv' = [inv EXCEPT ![s][c] =
                         [IdleInv EXCEPT
                            !.pc = "claimUpdate", !.action = action,
                            !.snap = view[s].claims,
                            !.pend0 = {d \in ClaimIds \ {c} :
                                         /\ ClaimItem[d] = OwnerItem
                                         /\ dbClaim[d] = "pending"}]]
    /\ UNCHANGED <<backendVars, adminVars, exceptClaims>>

\* The claims update returns.
ClaimUpdateReturns(s, c) ==
    /\ inv[s][c].pc = "claimUpdate"
    /\ \E ok \in BOOLEAN :
         LET r == inv[s][c] IN
         IF ~ok
         THEN /\ view' = [view EXCEPT ![s].error = "Failed to " \o r.action \o " claim"]
              /\ inv' = [inv EXCEPT ![s][c] =
                           [r EXCEPT !.pc = "idle", !.ran = TRUE, !.anyErr = TRUE,
                                     !.snap = [d \in ClaimIds |-> Absent]]]
              /\ UNCHANGED dbClaim
         ELSE /\ dbClaim' = [dbClaim EXCEPT ![c] = newClaimStatus(r.action)]
              /\ inv' = [inv EXCEPT ![s][c] =
                           [r EXCEPT !.pc = "notify", !.changed = @ \cup {c}]]
              /\ UNCHANGED view
    /\ UNCHANGED <<dbItem, dbNotif, itemWrites, started, adminVars, exceptClaims>>

\* The notifications insert returns; its result is not inspected.
NotifyReturns(s, c) ==
    /\ inv[s][c].pc = "notify"
    /\ \E ok \in BOOLEAN :
         LET r == inv[s][c]
             r1 == [r EXCEPT !.anyErr = @ \/ ~ok,
                             !.notified = IF ok THEN @ \cup {c} ELSE @]
         IN
         /\ dbNotif' = IF ok
                       THEN dbNotif \cup {Notification(Claimer[c], c, "claim_update")}
                       ELSE dbNotif
         /\ IF r.action = "approve"
            THEN /\ inv' = [inv EXCEPT ![s][c] = [r1 EXCEPT !.pc = "itemUpdate"]]
                 /\ UNCHANGED view
            ELSE /\ inv' = [inv EXCEPT ![s][c] = FinishedInv(r1)]
                 /\ view' = [view EXCEPT ![s] = FinishedView(@, c, r.action)]
    /\ UNCHANGED <<dbClaim, dbItem, itemWrites, started, adminVars, exceptClaims>>

\* Variant of ItemUpdateFailed that rolls the claim back to pending.
ItemUpdateFailedWithRollback(s, c) ==
    LET r == inv[s][c] IN
    /\ inv' = [inv EXCEPT ![s][c] =
                 FinishedInv([r EXCEPT !.anyErr = TRUE, !.itemErr = TRUE])]
    /\ view' = [view EXCEPT ![s] =
                  FinishedView([@ EXCEPT !.error = "Failed to update item status"],
                               c, r.action)]
    /\ dbClaim' = [dbClaim EXCEPT ![c] = "pending"]
    /\ UNCHANGED dbItem

\* The items update returned an error: setError, then straight to the local
\* refresh; no further backend call is made.
ItemUpdateFailed(s, c) ==
    LET r == inv[s][c] IN
    /\ inv' = [inv EXCEPT ![s][c] =
                 FinishedInv([r EXCEPT !.anyErr = TRUE, !.itemErr = TRUE])]
    /\ view' = [view EXCEPT ![s] =
                  FinishedView([@ EXCEPT !.error = "Failed to update item status"],
                               c, r.action)]
    /\ UNCHANGED <<dbClaim, dbItem>>

\* The items update succeeded: setItemStatus, then the sibling loop.
ItemUpdateSucceeded(s, c) ==
    LET r == inv[s][c]
        rest == otherPendingClaims(r.snap, c)
    IN
    /\ dbItem' = [dbItem EXCEPT ![OwnerItem] = "claimed"]
    /\ IF rest = <<>>
       THEN /\ inv' = [inv EXCEPT ![s][c] = FinishedInv(r)]
            /\ view' = [view EXCEPT ![s] =
                          FinishedView([@ EXCEPT !.itemStatus = "claimed"], c, r.action)]
       ELSE /\ inv' = [inv EXCEPT ![s][c] = [r EXCEPT !.pc = "cascade", !.others = rest]]
            /\ view' = [view EXCEPT ![s].itemStatus = "claimed"]
    /\ UNCHANGED dbClaim

\* The items update returns.
ItemUpdateReturns(s, c) ==
    /\ inv[s][c].pc = "itemUpdate"
    /\ \E ok \in BOOLEAN :
         IF ok THEN ItemUpdateSucceeded(s, c) ELSE ItemUpdateFailed(s, c)
    /\ itemWrites' = itemWrites \cup {"claimed"}
    /\ UNCHANGED <<dbNotif, started, adminVars, exceptClaims>>

\* One sibling rejection of the loop returns; its result is not inspected.
RejectOtherReturns(s, c) ==
    /\ inv[s][c].pc = "cascade"
    /\ \E ok \in BOOLEAN :
         LET r == inv[s][c]
             otherClaim == Head(r.others)
             r1 == [r EXCEPT !.others = Tail(@),
                             !.anyErr = @ \/ ~ok,
                             !.changed = IF ok THEN @ \cup {otherClaim} ELSE @]
         IN
         /\ dbClaim' = IF ok THEN [dbClaim EXCEPT ![otherClaim] = "rejected"] ELSE dbClaim
         /\ IF r1.others = <<>>
            THEN /\ inv' = [inv EXCEPT ![s][c] = FinishedInv(r1)]
                 /\ view' = [view EXCEPT ![s] = FinishedView(@, c, r.action)]
            ELSE /\ inv' = [inv EXCEPT ![s][c] = r1]
                 /\ UNCHANGED view
    /\ UNCHANGED <<dbItem, dbNotif, itemWrites, started, adminVars, exceptClaims>>

handleClaimAction(s, c) ==
    \/ \E action \in {"approve", "reject"} : ClaimClick(s, c, action)
    \/ ClaimUpdateReturns(s, c)
    \/ NotifyReturns(s, c)
    \/ ItemUpdateReturns(s, c)
    \/ RejectOtherReturns(s, c)

(***************************************************************************)
(* AdminPage: the pending-claims list and handleAction                     *)
(***************************************************************************)
IdleAdminInv ==
    [pc |-> "idle", action |-> "none",
     found |-> FALSE,       \* claims.find(...) on the list captured by the closure
     ran |-> FALSE,         \* an invocation has completed
     anyErr |-> FALSE,      \* some backend call returned an error
     pend0 |-> {}]          \* siblings pending in the backend at the click

\* fetchClaims: the claims with status pending, once the role check passed.
fetchClaims ==
    /\ adminClaims = NotLoaded
    /\ \E ok \in BOOLEAN :
         adminClaims' = IF ok THEN {c \in ClaimIds : dbClaim[c] = "pending"} ELSE {}
    /\ UNCHANGED <<backendVars, adminInv, started, ownerVars, exceptClaims>>

\* handleAction up to its first await (a click on a listed claim's button).
AdminClick(c, action) ==
    /\ adminClaims # NotLoaded
    /\ c \in adminClaims
    /\ adminInv[c].pc = "idle"
    /\ started < MaxActions
    /\ started' = started + 1
    /\ adminInv' = [adminInv EXCEPT ![c] =
                      [IdleAdminInv EXCEPT
                         !.pc = "claimUpdate", !.action = action,
                         !.found = (c \in adminClaims),
                         !.pend0 = {d \in ClaimIds \ {c} :
                                      /\ ClaimItem[d] = ClaimItem[c]
                                      /\ dbClaim[d] = "pending"}]]
    /\ UNCHANGED <<backendVars, adminClaims, ownerVars, exceptClaims>>

\* setClaims((prev) => prev.filter((c) => c.id !== claimId))
AdminListWithout(c) == adminClaims \ {c}

\* The claims update returns; its result is not inspected.
AdminClaimUpdateReturns(c) ==
    /\ adminInv[c].pc = "claimUpdate"
    /\ \E ok \in BOOLEAN :
         LET r == [adminInv[c] EXCEPT !.anyErr = @ \/ ~ok] IN
         /\ dbClaim' = IF ok THEN [dbClaim EXCEPT ![c] = newClaimStatus(r.action)]
                       ELSE dbClaim
         /\ IF r.action = "approve" /\ r.found
            THEN /\ adminInv' = [adminInv EXCEPT ![c] = [r EXCEPT !.pc = "itemUpdate"]]
                 /\ UNCHANGED adminClaims
            ELSE /\ adminInv' = [adminInv EXCEPT ![c] = [r EXCEPT !.pc = "idle", !.ran = TRUE]]
                 /\ adminClaims' = AdminListWithout(c)
    /\ UNCHANGED <<dbItem, dbNotif, itemWrites, started, ownerVars, exceptClaims>>

\* The items update returns; its result is not inspected.  Then the list refresh.
AdminItemUpdateReturns(c) ==
    /\ adminInv[c].pc = "itemUpdate"
    /\ \E ok \in BOOLEAN :
         /\ dbItem' = IF ok THEN [dbItem EXCEPT ![ClaimItem[c]] = "claimed"] ELSE dbItem
         /\ adminInv' = [adminInv EXCEPT ![c] =
                           [@ EXCEPT !.pc = "idle", !.ran = TRUE, !.anyErr = @ \/ ~ok]]
    /\ adminClaims' = AdminListWithout(c)
    /\ itemWrites' = itemWrites \cup {"claimed"}
    /\ UNCHANGED <<dbClaim, dbNotif, started, ownerVars, exceptClaims>>

handleAction(c) ==
    \/ \E action \in {"approve", "reject"} : AdminClick(c, action)
    \/ AdminClaimUpdateReturns(c)
    \/ AdminItemUpdateReturns(c)

(***************************************************************************)
(* sendMessage                                                             *)
(***************************************************************************)
NoUser == "nobody"                      \* recipientId === null

IdleSend ==
    [pc |-> "idle", sender |-> NoUser,
     files |-> 0,            \* attachments still to upload
     stored |-> 0,           \* id of the messages row it inserted, 0 if none
     recipientId |-> NoUser,
     notified |-> NoUser,    \* user_id of the notification row it inserted
     anyErr |-> FALSE]       \* some backend call returned an error

\* Variant of PosterChatRecipient that always picks the item's owner.
PosterChatRecipientAlwaysOwner(conversation, senderId) == conversation.owner

\* The other participant of a user-to-poster conversation.
PosterChatRecipient(conversation, senderId) ==
    IF conversation.creator_id = senderId
    THEN conversation.owner
    ELSE conversation.creator_id

\* The recipient of a user-to-security conversation: the creator when an admin
\* writes, else the first admin found (none when the lookup returns nothing).
SecurityChatRecipient(conversation, senderId, profileOk, adminsOk) ==
    IF profileOk /\ senderId = "adm"
    THEN conversation.creator_id
    ELSE IF adminsOk THEN "adm" ELSE NoUser

\* sendMessage up to its first await.
SendStart(senderId, nFiles) ==
    /\ send.pc \in {"idle", "done"}
    /\ dbMessages < MaxMsgs
    /\ send' = [IdleSend EXCEPT !.pc = IF nFiles > 0 THEN "upload" ELSE "insert",
                                !.sender = senderId, !.files = nFiles]
    /\ UNCHANGED <<conv, dbMessages, newMessageNotifs, chatVars, exceptMessaging>>

\* One attachment upload returns; an upload error is thrown to the caller.
UploadReturns ==
    /\ send.pc = "upload"
    /\ \E ok \in BOOLEAN :
         send' = IF ~ok THEN [send EXCEPT !.pc = "done", !.anyErr = TRUE]
                 ELSE [send EXCEPT !.files = @ - 1,
                                   !.pc = IF send.files = 1 THEN "insert" ELSE "upload"]
    /\ UNCHANGED <<conv, dbMessages, newMessageNotifs, chatVars, exceptMessaging>>

\* The messages insert returns; an insert error is thrown to the caller.  A
\* stored row is announced on the realtime channel of a subscribed page.
MessageInsertReturns ==
    /\ send.pc = "insert"
    /\ \E ok \in BOOLEAN :
         IF ~ok
         THEN /\ send' = [send EXCEPT !.pc = "done", !.anyErr = TRUE]
              /\ UNCHANGED <<dbMessages, rtQueue>>
         ELSE /\ dbMessages' = dbMessages + 1
              /\ send' = [send EXCEPT !.pc = "resolve", !.stored = dbMessages + 1]
              /\ rtQueue' = IF channel = "subscribed"
                            THEN rtQueue \cup {dbMessages + 1} ELSE rtQueue
    /\ UNCHANGED <<conv, newMessageNotifs, messages, polls, channel, mounted,
                   exceptMessaging>>

\* The conversation select and the profile lookups return: recipientId is known.
RecipientResolved ==
    /\ send.pc = "resolve"
    /\ \E convOk, profileOk, adminsOk \in BOOLEAN :
         LET recipientId ==
                 IF ~convOk THEN NoUser
                 ELSE IF conv.type = "user-to-poster"
                      THEN PosterChatRecipient(conv, send.sender)
                      ELSE SecurityChatRecipient(conv, send.sender, profileOk, adminsOk)
             readErr == \/ ~convOk
                        \/ (conv.type = "user-to-security" /\ ~profileOk)
                        \/ (conv.type = "user-to-security" /\ convOk
                              /\ ~(profileOk /\ send.sender = "adm") /\ ~adminsOk)
         IN
         send' = [send EXCEPT
                    !.recipientId = recipientId,
                    !.anyErr = @ \/ readErr,
                    !.pc = IF recipientId # NoUser /\ recipientId # send.sender
                           THEN "notify" ELSE "done"]
    /\ UNCHANGED <<conv, dbMessages, newMessageNotifs, chatVars, exceptMessaging>>

\* The notifications insert returns; its result is not inspected.
MessageNotifyReturns ==
    /\ send.pc = "notify"
    /\ \E nameOk, ok \in BOOLEAN :
         /\ newMessageNotifs' =
               IF ok THEN [newMessageNotifs EXCEPT ![send.recipientId] = @ + 1]
               ELSE newMessageNotifs
         /\ send' = [send EXCEPT !.pc = "done",
                                 !.anyErr = @ \/ ~nameOk \/ ~ok,
                                 !.notified = IF ok THEN send.recipientId ELSE NoUser]
    /\ UNCHANGED <<conv, dbMessages, chatVars, exceptMessaging>>

sendMessage ==
    \/ \E senderId \in Users, nFiles \in {0, 1} : SendStart(senderId, nFiles)
    \/ UploadReturns
    \/ MessageInsertReturns
    \/ RecipientResolved
    \/ MessageNotifyReturns

(***************************************************************************)
(* ChatPage: initial fetch, 2-second polling, realtime subscription        *)
(***************************************************************************)
\* The rows a query that saw k rows returns, ordered by created_at.
Rows(k) == [i \in 1..k |-> i]

\* Variant of PolledMessages that discards the query's rows.
PolledMessagesDiscarded(prev, k) == prev

\* setMessages(data || []) of fetchMessages
PolledMessages(prev, k) == Rows(k)

\* Variant of ReceivedMessage without the "id already listed" test.
ReceivedMessageAlwaysAppended(prev, msg) == Append(prev, msg)

\* The realtime callback's state update: skip a message whose id is listed.
ReceivedMessage(prev, msg) ==
    IF \E i \in 1..Len(prev) : prev[i] = msg THEN prev ELSE Append(prev, msg)

\* The effect runs: first fetchMessages, setInterval, subscribeToMessages
\* (which returns a dummy channel when the channel cannot be created).
Mount ==
    /\ ~mounted
    /\ mounted' = TRUE
    /\ messages' = <<>>
    /\ polls' = {dbMessages}
    /\ \E created \in BOOLEAN : channel' = IF created THEN "subscribed" ELSE "dummy"
    /\ rtQueue' = {}
    /\ UNCHANGED <<sendVars, exceptMessaging>>

\* The effect's cleanup: clearInterval and unsubscribe; the component's state
\* goes with the component.
Unmount ==
    /\ mounted
    /\ mounted' = FALSE
    /\ channel' = "none"
    /\ polls' = {}
    /\ rtQueue' = {}
    /\ messages' = <<>>
    /\ UNCHANGED <<sendVars, exceptMessaging>>

\* The interval fires: fetchMessages issues its query.
PollTick ==
    /\ mounted
    /\ polls' = polls \cup {dbMessages}
    /\ UNCHANGED <<messages, rtQueue, channel, mounted, sendVars, exceptMessaging>>

\* A fetchMessages query returns.
PollReturns(k, ok) ==
    /\ mounted
    /\ k \in polls
    /\ polls' = polls \ {k}
    /\ messages' = IF ok THEN PolledMessages(messages, k) ELSE messages
    /\ UNCHANGED <<rtQueue, channel, mounted, sendVars, exceptMessaging>>

\* The channel delivers an INSERT event (possibly not for the last time).
RealtimeDelivers(msg, again) ==
    /\ mounted
    /\ msg \in rtQueue
    /\ rtQueue' = IF again THEN rtQueue ELSE rtQueue \ {msg}
    /\ messages' = ReceivedMessage(messages, msg)
    /\ UNCHANGED <<polls, channel, mounted, sendVars, exceptMessaging>>

\* The channel loses an INSERT event.
RealtimeDrops(msg) ==
    /\ msg \in rtQueue
    /\ rtQueue' = rtQueue \ {msg}
    /\ UNCHANGED <<messages, polls, channel, mounted, sendVars, exceptMessaging>>

(***************************************************************************)
(* Forms that write items.status                                           *)
(***************************************************************************)
\* CREATE TYPE public.item_status AS ENUM (...)
item_status == {"lost", "found", "claimed", "archived"}

\* <option> values of the status <select> of the report and edit forms
ReportStatusOptions == {"lost", "found"}

\* statuses prop handed to EditItemModal by the admin dashboard
AdminModalStatuses == {"lost", "found", "claimed", "resolved", "archived"}

NoForm == [kind |-> "none", item |-> "i1", status |-> "lost"]

\* reportItemSchema.status: z.enum(ItemStatusValues)
reportItemSchema(data) == data.status \in ItemStatusValues

\* The backend applies an items.status write when the call goes through and the
\* value belongs to the column's enum.
ItemsWritten(item, status, ok) ==
    IF ok /\ status \in item_status THEN [dbItem EXCEPT ![item] = status] ELSE dbItem

\* The report page opens with its default values.
OpenReport(item) ==
    /\ form.kind = "none"
    /\ dbItem[item] = NoRow
    /\ form' = [kind |-> "report", item |-> item, status |-> "lost"]
    /\ UNCHANGED <<dbItem, itemWrites, exceptForms>>

\* The owner's edit page opens: reset({...data, status: data.status || 'lost'}).
OpenEdit(item) ==
    /\ form.kind = "none"
    /\ dbItem[item] # NoRow
    /\ form' = [kind |-> "edit", item |-> item, status |-> dbItem[item]]
    /\ UNCHANGED <<dbItem, itemWrites, exceptForms>>

\* The admin dashboard opens EditItemModal on a listed item: formData = item.
OpenAdminEdit(item) ==
    /\ form.kind = "none"
    /\ dbItem[item] # NoRow
    /\ form' = [kind |-> "adminEdit", item |-> item, status |-> dbItem[item]]
    /\ UNCHANGED <<dbItem, itemWrites, exceptForms>>

\* The user picks an option of the status <select>.
SelectStatus(value) ==
    /\ form.kind # "none"
    /\ value \in (IF form.kind = "adminEdit" THEN AdminModalStatuses ELSE ReportStatusOptions)
    /\ form' = [form EXCEPT !.status = value]
    /\ UNCHANGED <<dbItem, itemWrites, exceptForms>>

\* onSubmit of the report page: the insert, reached once the schema accepts.
SubmitReport ==
    /\ form.kind = "report"
    /\ reportItemSchema(form)
    /\ itemWrites' = itemWrites \cup {form.status}
    /\ \E ok \in BOOLEAN :
         /\ dbItem' = ItemsWritten(form.item, form.status, ok)
         /\ form' = IF ok THEN NoForm ELSE form
    /\ UNCHANGED exceptForms

\* onSubmit of the edit page: the update, reached once the schema accepts.
SubmitEdit ==
    /\ form.kind = "edit"
    /\ reportItemSchema(form)
    /\ itemWrites' = itemWrites \cup {form.status}
    /\ \E ok \in BOOLEAN :
         /\ dbItem' = ItemsWritten(form.item, form.status, ok)
         /\ form' = IF ok THEN NoForm ELSE form
    /\ UNCHANGED exceptForms

\* onSave of EditItemModal: the update is sent with formData.status as it is.
SaveAdminEdit ==
    /\ form.kind = "adminEdit"
    /\ itemWrites' = itemWrites \cup {form.status}
    /\ \E ok \in BOOLEAN :
         /\ dbItem' = ItemsWritten(form.item, form.status, ok)
         /\ form' = IF ok /\ form.status \in item_status THEN NoForm ELSE form
    /\ UNCHANGED exceptForms

\* The form is left without submitting.
CloseForm ==
    /\ form.kind # "none"
    /\ form' = NoForm
    /\ UNCHANGED <<dbItem, itemWrites, exceptForms>>

(***************************************************************************)
(* utils/filters.ts: applyFilters                                          *)
(* Strings are sequences of characters, so that toLowerCase is computed.   *)
(***************************************************************************)
Undefined == <<"undefined">>            \* a missing (non-string) field
NotComputed == [done |-> FALSE, list |-> <<>>]   \* applyFilters has not run yet
NoDate == 0                             \* dateRange.start / end === null
InvalidDate == NoDate                   \* new Date("") : getTime() is NaN

ToLowerChar(ch) ==
    CASE ch = "B" -> "b" [] ch = "C" -> "c" [] ch = "D" -> "d" [] ch = "E" -> "e"
      [] ch = "K" -> "k" [] ch = "L" -> "l" [] ch = "N" -> "n" [] ch = "O" -> "o"
      [] ch = "Q" -> "q" [] ch = "R" -> "r"
      [] ch = "S" -> "s" [] ch = "T" -> "t" [] ch = "U" -> "u" [] ch = "Y" -> "y"
      [] OTHER -> ch

toLowerCase(str) == [i \in 1..Len(str) |-> ToLowerChar(str[i])]

\* filters.category.some((cat) => typeof item.category === "string" && ...)
categoryMatches(item, f) ==
    \E cat \in f.category :
        /\ item.category # Undefined
        /\ toLowerCase(item.category) = toLowerCase(cat)

secured == <<"s", "e", "c", "u", "r", "e", "d">>

wantsSecured(f) == \E status \in f.status : toLowerCase(status) = secured

otherStatuses(f) == {status \in f.status : toLowerCase(status) # secured}

\* Variant of statusMatches without the special handling of 'secured'.
statusMatchesByEqualityOnly(item, f) ==
    \E status \in f.status :
        /\ item.status # Undefined
        /\ toLowerCase(item.status) = toLowerCase(status)

statusMatches(item, f) ==
    \/ wantsSecured(f) /\ item.turn_in_to_security
    \/ /\ otherStatuses(f) # {}
       /\ \E status \in otherStatuses(f) :
            /\ item.status # Undefined
            /\ toLowerCase(item.status) = toLowerCase(status)

\* The date range tests; an invalid item date passes both.
afterStart(item, f) ==
    f.start # NoDate => (item.date = InvalidDate \/ ~(item.date < f.start))

beforeEnd(item, f) ==
    f.end # NoDate => (item.date = InvalidDate \/ ~(item.date > f.end))

\* The callback of items.filter(...)
keepsItem(item, f) ==
    /\ f.category # {} => categoryMatches(item, f)
    /\ f.status # {} => statusMatches(item, f)
    /\ afterStart(item, f)
    /\ beforeEnd(item, f)

applyFilters(list, f) == SelectSeq(list, LAMBDA item : keepsItem(item, f))

\* The listing page recomputes the shown list from the items and the filters.
ApplyFilters ==
    /\ ~shown.done
    /\ shown' = [done |-> TRUE, list |-> applyFilters(items, filters)]
    /\ UNCHANGED <<items, filters, exceptFilters>>

\* handleFilterChange: a category or status is toggled, or a date is set.
ToggleCategory(cat) ==
    /\ filters' = [filters EXCEPT !.category =
                     IF cat \in @ THEN @ \ {cat} ELSE @ \cup {cat}]
    /\ shown' = NotComputed
    /\ UNCHANGED <<items, exceptFilters>>

ToggleStatus(status) ==
    /\ filters' = [filters EXCEPT !.status =
                     IF status \in @ THEN @ \ {status} ELSE @ \cup {status}]
    /\ shown' = NotComputed
    /\ UNCHANGED <<items, exceptFilters>>

SetDateRange(start, end) ==
    /\ filters' = [filters EXCEPT !.start = start, !.end = end]
    /\ filters' # filters
    /\ shown' = NotComputed
    /\ UNCHANGED <<items, exceptFilters>>

(***************************************************************************)
(* utils/filters.ts: applySearch                                           *)
(***************************************************************************)
\* String.prototype.trim, on strings whose only whitespace is the space
trim(str) ==
    LET kept == {i \in 1..Len(str) : str[i] # " "} IN
    IF kept = {} THEN <<>>
    ELSE SubSeq(str, CHOOSE i \in kept : \A j \in kept : i <= j,
                     CHOOSE i \in kept : \A j \in kept : i >= j)

\* String.prototype.includes
includes(str, term) ==
    \E i \in 0..(Len(str) - Len(term)) : SubSeq(str, i + 1, i + Len(term)) = term

\* item.field && item.field.toLowerCase().includes(term)
fieldMatches(field, term) ==
    /\ field # Undefined
    /\ field # <<>>
    /\ includes(toLowerCase(field), term)

\* Variant of searchMatches that looks at the title alone.
searchMatchesTitleOnly(item, term) == fieldMatches(item.title, term)

\* The callback of items.filter(...) in applySearch
searchMatches(item, term) ==
    \/ fieldMatches(item.title, term)
    \/ fieldMatches(item.description, term)
    \/ fieldMatches(item.location_description, term)
    \/ fieldMatches(item.category, term)

applySearch(list, term) ==
    IF term = <<>> \/ trim(term) = <<>>
    THEN list
    ELSE SelectSeq(list, LAMBDA item : searchMatches(item, trim(toLowerCase(term))))

\* The user types in the search box.
SetSearchTerm(term) ==
    /\ term # searchTerm
    /\ searchTerm' = term
    /\ results' = NotComputed
    /\ UNCHANGED <<items, exceptSearch>>

\* The listing page recomputes the searched list.
ApplySearch ==
    /\ ~results.done
    /\ results' = [done |-> TRUE, list |-> applySearch(items, searchTerm)]
    /\ UNCHANGED <<items, searchTerm, exceptSearch>>

(***************************************************************************)
(* scripts/backup/backup.ts: backup run and retention                      *)
(***************************************************************************)
KEEP_DAILY == 30
KEEP_WEEKLY == 12
KEEP_MONTHLY == 12

BackupTypes == {"daily", "weekly", "monthly"}

\* getBackupType on calendar day d, in a calendar of 30-day months whose day 1
\* is the first of a month and whose days divisible by 7 are Sundays.
getBackupType(d) ==
    IF d % 30 = 1 THEN "monthly" ELSE IF d % 7 = 0 THEN "weekly" ELSE "daily"

\* A backup file: its name carries the type and the creation timestamp, of
\* which getDateFromFilename reads the day alone; n orders the files by creation.
BackupFile(type, d, seq) == [type |-> type, day |-> d, n |-> d * 10 + seq]

\* backupFiles.filter(f => f.name.includes(type))
OfType(files, type) == {f \in files : f.type = type}

\* The day of the last file kept by sort(date descending) + slice(0, keep).
BoundaryDay(backups, keep) ==
    CHOOSE d \in {f.day : f \in backups} :
        /\ Cardinality({f \in backups : f.day >= d}) >= keep
        /\ Cardinality({f \in backups : f.day > d}) < keep

\* removeOldBackups: the sets of files that sort + slice(keep) can leave.  The
\* sort compares days only and is stable, so files of the same day stay in the
\* order readdirSync listed them, which the file system decides.
KeptSets(backups, keep) ==
    IF Cardinality(backups) <= keep THEN {backups}
    ELSE LET D == BoundaryDay(backups, keep)
             newer == {f \in backups : f.day > D}
             sameDay == {f \in backups : f.day = D}
         IN {newer \cup T : T \in {X \in SUBSET sameDay :
                                     Cardinality(X) = keep - Cardinality(newer)}}

Keep(type) ==
    CASE type = "daily" -> KEEP_DAILY
      [] type = "weekly" -> KEEP_WEEKLY
      [] type = "monthly" -> KEEP_MONTHLY

\* The directory a daily scheduled run leaves after its run of day d.
ScheduledDir(d) ==
    LET all == {BackupFile(getBackupType(e), e, 0) : e \in 1..d} IN
    UNION {CHOOSE K \in KeptSets(OfType(all, type), Keep(type)) : TRUE : type \in BackupTypes}

NoBackupRun(d) ==
    [day |-> d, runs |-> 0, created |-> BackupFile("daily", 0, 0),
     cleaned |-> FALSE, fsErr |-> FALSE]

\* main: backupDatabase, then cleanupOldBackups.  The run happens `later` days
\* after the previous one; the shell creates the file even when pg_dump
\* fails, and then the run exits without the cleanup.
BackupMain(later, dumpOk) ==
    LET d == backupRun.day + later
        file == BackupFile(getBackupType(d), d, backupRun.runs + 2)
        files == backupDir \cup {file}
    IN
    /\ backupRun.runs < MaxRuns
    /\ IF ~dumpOk
       THEN /\ backupDir' = files
            /\ backupRun' = [day |-> d, runs |-> backupRun.runs + 1, created |-> file,
                             cleaned |-> FALSE, fsErr |-> FALSE]
       ELSE \E daily \in KeptSets(OfType(files, "daily"), KEEP_DAILY),
               weekly \in KeptSets(OfType(files, "weekly"), KEEP_WEEKLY),
               monthly \in KeptSets(OfType(files, "monthly"), KEEP_MONTHLY) :
              \E failed \in SUBSET (files \ (daily \cup weekly \cup monthly)) :
                 /\ backupDir' = daily \cup weekly \cup monthly \cup failed
                 /\ backupRun' = [day |-> d, runs |-> backupRun.runs + 1,
                                  created |-> file, cleaned |-> TRUE,
                                  fsErr |-> (failed # {})]
    /\ UNCHANGED exceptBackup

(***************************************************************************)
(* Restore utility (scripts/backup/restore.ts)                             *)
(***************************************************************************)
Digits == <<"0", "1", "2", "3", "4", "5", "6", "7", "8", "9">>

IsDigit(ch) == \E i \in 1..Len(Digits) : Digits[i] = ch

DigitValue(ch) == (CHOOSE i \in 1..Len(Digits) : Digits[i] = ch) - 1

RECURSIVE DecimalValue(_)
DecimalValue(str) ==
    IF str = <<>> THEN 0
    ELSE DecimalValue(SubSeq(str, 1, Len(str) - 1)) * Len(Digits) + DigitValue(str[Len(str)])

NaN == [nan |-> TRUE, val |-> 0]

Number(n) == [nan |-> FALSE, val |-> n]

\* parseInt(str, 10): leading white space is skipped, a sign is read, then
\* the longest run of digits; what follows the digits is ignored, and without
\* a digit the result is NaN.
parseInt(str) ==
    LET blank == {i \in 1..Len(str) : \A j \in 1..i : str[j] = " "}
        s == SubSeq(str, Cardinality(blank) + 1, Len(str))
        signed == s # <<>> /\ s[1] \in {"+", "-"}
        body == IF signed THEN Tail(s) ELSE s
        digits == {i \in 1..Len(body) : \A j \in 1..i : IsDigit(body[j])}
        magnitude == DecimalValue(SubSeq(body, 1, Cardinality(digits)))
    IN IF digits = {} THEN NaN
       ELSE Number(IF signed /\ s[1] = "-" THEN 0 - magnitude ELSE magnitude)

\* parseInt(answer, 10) - 1
SelectedIndex(answer) ==
    LET parsed == parseInt(answer) IN IF parsed.nan THEN NaN ELSE Number(parsed.val - 1)

\* Variant of validSelection without the upper limit.
validSelectionWithoutUpperLimit(index, n) == ~index.nan /\ index.val >= 0

\* !(isNaN(index) || index < 0 || index >= backups.length)
validSelection(index, n) == ~index.nan /\ index.val >= 0 /\ index.val < n

q == <<"q">>
yes == <<"y", "e", "s">>

NoRestore ==
    [pc |-> "idle", backups |-> 0, answer |-> Undefined, confirm |-> Undefined,
     ran |-> FALSE, failed |-> FALSE]

\* main up to the first question: listBackups found n files.
RestoreMain(n) ==
    /\ restore.pc = "idle"
    /\ restore' = [restore EXCEPT !.backups = n,
                                  !.pc = IF n = 0 THEN "closed" ELSE "select"]
    /\ UNCHANGED exceptRestore

\* main from the answer to the first question up to the question of
\* restoreDatabase, which throws without DATABASE_URL or without the file.
SelectionAnswered(answer, dbUrl, exists) ==
    /\ restore.pc = "select"
    /\ restore' =
         [restore EXCEPT
            !.answer = answer,
            !.pc = IF toLowerCase(answer) = q THEN "closed"
                   ELSE IF ~validSelection(SelectedIndex(answer), restore.backups)
                        THEN "closed"
                   ELSE IF ~dbUrl \/ ~exists THEN "closed"
                   ELSE "confirm",
            !.failed = /\ toLowerCase(answer) # q
                       /\ validSelection(SelectedIndex(answer), restore.backups)
                       /\ (~dbUrl \/ ~exists)]
    /\ UNCHANGED exceptRestore

\* restoreDatabase from the confirmation answer to the call of psql.
ConfirmAnswered(confirm) ==
    /\ restore.pc = "confirm"
    /\ restore' = [restore EXCEPT
                     !.confirm = confirm,
                     !.pc = IF toLowerCase(confirm) # yes THEN "closed" ELSE "psql",
                     !.ran = (toLowerCase(confirm) = yes)]
    /\ UNCHANGED exceptRestore

\* psql returns; on an error main exits with code 1.
PsqlReturns(ok) ==
    /\ restore.pc = "psql"
    /\ restore' = [restore EXCEPT !.pc = "closed", !.failed = ~ok]
    /\ UNCHANGED exceptRestore

(***************************************************************************)
(* components/supabase-listener.tsx and app/layout.tsx                     *)
(***************************************************************************)
Tokens == {"t1", "t2"}

NoToken == "undefined"                  \* session?.access_token of a null session

NoSession == [present |-> FALSE, access_token |-> NoToken]

Session(token) == [present |-> TRUE, access_token |-> token]

AuthSessions == {NoSession} \cup {Session(token) : token \in Tokens}

\* session?.access_token
accessTokenOf(session) == IF session.present THEN session.access_token ELSE NoToken

\* Variant of tokenDiffers that ignores events without a session.
tokenDiffersOfPresentSession(session, serverAccessToken) ==
    session.present /\ session.access_token # serverAccessToken

\* session?.access_token !== serverAccessToken
tokenDiffers(session, serverAccessToken) ==
    accessTokenOf(session) # serverAccessToken

NoEvent == [seen |-> FALSE, session |-> NoSession, server |-> NoToken, refreshed |-> FALSE]

\* RootLayout rendered with the session of the cookies; the listener subscribed.
Listening(session) ==
    [serverAccessToken |-> accessTokenOf(session), refreshing |-> FALSE,
     events |-> 0, refreshes |-> 0, last |-> NoEvent]

\* The callback of onAuthStateChange on an event carrying `session`.
AuthStateChange(session) ==
    /\ listener.events < MaxEvents
    /\ authSession' = session
    /\ LET refresh == tokenDiffers(session, listener.serverAccessToken) IN
       listener' = [listener EXCEPT
                      !.events = @ + 1,
                      !.refreshing = @ \/ refresh,
                      !.refreshes = IF refresh THEN @ + 1 ELSE @,
                      !.last = [seen |-> TRUE, session |-> session,
                                server |-> listener.serverAccessToken,
                                refreshed |-> refresh]]
    /\ UNCHANGED exceptListener

\* router.refresh() renders RootLayout on the server again; the new prop
\* replaces the subscription (effect clean-up and effect).
RefreshRenders ==
    /\ listener.refreshing
    /\ listener' = [listener EXCEPT !.refreshing = FALSE,
                                    !.serverAccessToken = accessTokenOf(authSession)]
    /\ UNCHANGED <<authSession, exceptListener>>

(***************************************************************************)
(* ItemDetailActions: a user's claim on an item (fetchClaims, handleClaim) *)
(***************************************************************************)
Calls == {1, 2}                         \* handleClaim invocations a session can overlap

NoClaim == "null"                       \* userClaim === null

NoClaimError == ""

UnmountedDetail ==
    [mounted |-> FALSE, fetching |-> FALSE, userClaim |-> NoClaim,
     showClaimModal |-> FALSE, claimError |-> NoClaimError, claimSuccess |-> FALSE,
     call |-> [k \in Calls |-> "idle"]]

\* .order("created_at", { ascending: false }).limit(1), then
\* userClaims && userClaims.length > 0 ? userClaims[0] : null
LatestClaim(rows) == IF rows = <<>> THEN NoClaim ELSE rows[Len(rows)]

\* userClaim && ["pending", "approved"].includes(userClaim.status)
AlreadyClaimed(s) == detail[s].userClaim \in {"pending", "approved"}

\* The item page is rendered for the signed-in user; the effect starts fetchClaims.
DetailMount(s) ==
    /\ ~detail[s].mounted
    /\ detail' = [detail EXCEPT ![s] = [UnmountedDetail EXCEPT !.mounted = TRUE,
                                                               !.fetching = TRUE]]
    /\ UNCHANGED <<userClaims, exceptDetail>>

\* fetchClaims: the select returns and setUserClaim runs.
FetchClaimsReturns(s) ==
    /\ detail[s].fetching
    /\ detail' = [detail EXCEPT ![s].fetching = FALSE,
                                ![s].userClaim = LatestClaim(userClaims)]
    /\ UNCHANGED <<userClaims, exceptDetail>>

\* "Claim this item", rendered while userClaim is null.
OpenClaimModal(s) ==
    /\ detail[s].mounted
    /\ detail[s].userClaim = NoClaim
    /\ ~detail[s].showClaimModal
    /\ detail' = [detail EXCEPT ![s].showClaimModal = TRUE]
    /\ UNCHANGED <<userClaims, exceptDetail>>

\* handleClaim up to its first await: "Submit Claim" in the modal.
HandleClaimClick(s, k, textOk) ==
    /\ detail[s].showClaimModal
    /\ detail[s].call[k] = "idle"
    /\ Len(userClaims) < MaxClaims
    /\ detail' =
         [detail EXCEPT ![s] =
            IF ~textOk
            THEN [@ EXCEPT !.claimSuccess = FALSE,
                           !.claimError = "Please provide a reason (at least 10 characters)."]
            ELSE IF AlreadyClaimed(s)
            THEN [@ EXCEPT !.claimSuccess = FALSE,
                           !.claimError = "You have already submitted a claim for this item."]
            ELSE [@ EXCEPT !.claimSuccess = FALSE, !.claimError = NoClaimError,
                           !.call[k] = "insert"]]
    /\ UNCHANGED <<userClaims, exceptDetail>>

\* The claims insert returns; a new row has the default status 'pending'.
ClaimInsertReturns(s, k, ok) ==
    /\ detail[s].call[k] = "insert"
    /\ IF ok /\ Len(userClaims) < MaxClaims
       THEN /\ userClaims' = Append(userClaims, "pending")
            /\ detail' = [detail EXCEPT ![s].call[k] = "notify"]
       ELSE /\ userClaims' = userClaims
            /\ detail' = [detail EXCEPT ![s].call[k] = "idle",
                                        ![s].claimError = "Failed to submit claim."]
    /\ UNCHANGED exceptDetail

\* The notifications insert returns (result not inspected): the modal closes
\* and the refetch starts.
ClaimNotifyReturns(s, k) ==
    /\ detail[s].call[k] = "notify"
    /\ detail' = [detail EXCEPT ![s].call[k] = "refetch",
                                ![s].claimSuccess = TRUE,
                                ![s].showClaimModal = FALSE]
    /\ UNCHANGED <<userClaims, exceptDetail>>

\* The refetch returns and setUserClaim runs.
RefetchReturns(s, k) ==
    /\ detail[s].call[k] = "refetch"
    /\ detail' = [detail EXCEPT ![s].call[k] = "idle",
                                ![s].userClaim = LatestClaim(userClaims)]
    /\ UNCHANGED <<userClaims, exceptDetail>>

handleClaim(s, k) ==
    \/ \E textOk \in BOOLEAN : HandleClaimClick(s, k, textOk)
    \/ \E ok \in BOOLEAN : ClaimInsertReturns(s, k, ok)
    \/ ClaimNotifyReturns(s, k)
    \/ RefetchReturns(s, k)

\* The item's owner approves or rejects a pending claim of the user.
OwnerResolves(i, action) ==
    /\ i \in 1..Len(userClaims)
    /\ userClaims[i] = "pending"
    /\ userClaims' = [userClaims EXCEPT ![i] = newClaimStatus(action)]
    /\ UNCHANGED <<detail, exceptDetail>>

(***************************************************************************)
(* lib/supabase/client.ts: getOrCreateConversation                         *)
(***************************************************************************)
ConvCalls == 1..MaxConvCalls

\* CREATE TYPE public.conversation_type AS ENUM (...)
conversation_type == {"user-to-poster", "user-to-security"}

Chatters == {"u1", "u2"}

NoConvCall ==
    [pc |-> "idle", userId |-> "none", itemId |-> "none", type |-> "none",
     existing |-> FALSE, returned |-> {}, thrown |-> "none"]

\* The rows with the item, type and creator of a call.
ConversationsOf(itemId, type, userId) ==
    {row \in dbConversations :
        row.item_id = itemId /\ row.type = type /\ row.creator_id = userId}

\* Variant of uniqueViolation for a table without the unique index.
uniqueViolationNeverRaised(itemId, type, userId) == FALSE

\* idx_conversations_item_creator_type_unique refuses the insert.
uniqueViolation(itemId, type, userId) == ConversationsOf(itemId, type, userId) # {}

\* ChatInitiator.handleClick: the call starts and auth.getUser returns.
GetUserReturns(k, userId, itemId, type, ok) ==
    /\ convCall[k].pc = "idle"
    /\ \A j \in ConvCalls : j < k => convCall[j].pc # "idle"
    /\ convCall' = [convCall EXCEPT ![k] =
                      IF ok
                      THEN [NoConvCall EXCEPT !.pc = "select", !.userId = userId,
                                              !.itemId = itemId, !.type = type]
                      ELSE [NoConvCall EXCEPT !.pc = "done", !.userId = userId,
                                              !.itemId = itemId, !.type = type,
                                              !.thrown = "authErr"]]
    /\ UNCHANGED <<dbConversations, exceptConversations>>

\* The lookup returns: an error other than PGRST116 (no row) is thrown, an
\* existing row is returned, otherwise the insert is sent.
ConversationSelectReturns(k, ok) ==
    /\ convCall[k].pc = "select"
    /\ LET c == convCall[k]
           rows == ConversationsOf(c.itemId, c.type, c.userId)
       IN convCall' = [convCall EXCEPT ![k] =
                         IF ~ok THEN [c EXCEPT !.pc = "done", !.thrown = "selectErr"]
                         ELSE IF rows # {}
                         THEN [c EXCEPT !.pc = "done", !.existing = TRUE,
                                        !.returned = {(CHOOSE row \in rows : TRUE).id}]
                         ELSE [c EXCEPT !.pc = "insert"]]
    /\ UNCHANGED <<dbConversations, exceptConversations>>

\* The insert returns: the new row, or insertErr, which is thrown.
ConversationInsertReturns(k, ok) ==
    /\ convCall[k].pc = "insert"
    /\ LET c == convCall[k]
           id == Cardinality(dbConversations) + 1
       IN IF ~ok
          THEN /\ convCall' = [convCall EXCEPT ![k] =
                                 [c EXCEPT !.pc = "done", !.thrown = "insertErr"]]
               /\ UNCHANGED dbConversations
          ELSE IF uniqueViolation(c.itemId, c.type, c.userId)
          THEN /\ convCall' = [convCall EXCEPT ![k] =
                                 [c EXCEPT !.pc = "done", !.thrown = "23505"]]
               /\ UNCHANGED dbConversations
          ELSE /\ dbConversations' = dbConversations \cup
                      {[id |-> id, item_id |-> c.itemId, type |-> c.type,
                        creator_id |-> c.userId]}
               /\ convCall' = [convCall EXCEPT ![k] =
                                 [c EXCEPT !.pc = "done", !.returned = {id}]]
    /\ UNCHANGED exceptConversations

getOrCreateConversation(k) ==
    \/ \E userId \in Chatters, itemId \in ItemIds, type \in conversation_type,
          ok \in BOOLEAN : GetUserReturns(k, userId, itemId, type, ok)
    \/ \E ok \in BOOLEAN : ConversationSelectReturns(k, ok)
    \/ \E ok \in BOOLEAN : ConversationInsertReturns(k, ok)

(***************************************************************************)
(* app/admin/page.tsx: AdminPage checkAuth and fetchData                   *)
(***************************************************************************)
\* The count queries of the KPI section, in the order fetchData awaits them.
KpiQueries == <<"lost", "found", "claimedResolved", "users", "newUsers">>

\* The queries of the statistics section, in the order fetchData awaits them.
StatsQueries == <<"itemTime", "category", "claimTime", "userTime">>

\* useState(...) of AdminPage; checkAuth is under way.
DashboardMounted ==
    [pc |-> "checkAuth", roleChecked |-> FALSE,
     loadingKpis |-> TRUE, loadingClaims |-> TRUE, loadingItems |-> TRUE,
     loadingStats |-> TRUE,
     counts |-> <<>>,        \* per KPI query answered: whether it gave a count
     stats |-> 0,            \* statistics queries answered
     failed |-> FALSE]       \* some dashboard query returned an error

\* The catch block of fetchData.
FetchDataCaught(d) ==
    [d EXCEPT !.pc = "done", !.failed = TRUE,
              !.loadingKpis = FALSE, !.loadingClaims = FALSE,
              !.loadingItems = FALSE, !.loadingStats = FALSE]

\* The end of the try block of fetchData: setLoadingStats(false).
FetchDataFinished(d) == [d EXCEPT !.pc = "done", !.loadingStats = FALSE]

\* checkAuth returns: without a session or an admin profile the router
\* leaves the page; otherwise setRoleChecked(true) and the effect starts
\* fetchData, which sets the four flags.
CheckAuthReturns(admin) ==
    /\ dash.pc = "checkAuth"
    /\ dash' = IF admin
               THEN [dash EXCEPT !.pc = "kpis", !.roleChecked = TRUE,
                                 !.loadingKpis = TRUE, !.loadingClaims = TRUE,
                                 !.loadingItems = TRUE, !.loadingStats = TRUE]
               ELSE [dash EXCEPT !.pc = "redirected"]
    /\ UNCHANGED exceptDash

\* A count query returns; its error is not read and a missing count shows as 0.
KpiQueryReturns(ok) ==
    /\ dash.pc = "kpis"
    /\ LET counts == Append(dash.counts, ok) IN
       dash' = [dash EXCEPT !.counts = counts,
                            !.failed = @ \/ ~ok,
                            !.pc = IF Len(counts) = Len(KpiQueries) THEN "claims" ELSE "kpis"]
    /\ UNCHANGED exceptDash

\* The claims query returns: claimsError is thrown.
DashClaimsReturn(ok) ==
    /\ dash.pc = "claims"
    /\ dash' = IF ok THEN [dash EXCEPT !.pc = "items"] ELSE FetchDataCaught(dash)
    /\ UNCHANGED exceptDash

\* The items query returns: itemsError is thrown.
DashItemsReturn(ok) ==
    /\ dash.pc = "items"
    /\ dash' = IF ok THEN [dash EXCEPT !.pc = "stats"] ELSE FetchDataCaught(dash)
    /\ UNCHANGED exceptDash

\* A statistics query returns: its error is thrown to the inner catch, which
\* clears loadingStats alone.
StatsQueryReturns(ok) ==
    /\ dash.pc = "stats"
    /\ dash' = IF ~ok
               THEN [dash EXCEPT !.pc = "done", !.failed = TRUE, !.loadingStats = FALSE]
               ELSE IF dash.stats + 1 = Len(StatsQueries)
               THEN FetchDataFinished([dash EXCEPT !.stats = @ + 1])
               ELSE [dash EXCEPT !.stats = @ + 1]
    /\ UNCHANGED exceptDash

(***************************************************************************)
(* Specifications, one per part of the application                         *)
(***************************************************************************)
BackendIdle ==
    /\ dbClaim = [c \in ClaimIds |-> NoRow]
    /\ dbItem = [i \in ItemIds |-> "lost"]
    /\ dbNotif = {}
    /\ itemWrites = {}

ClaimPagesIdle ==
    /\ view = [s \in Sessions |-> UnloadedView]
    /\ inv = [s \in Sessions |-> [c \in ClaimIds |-> IdleInv]]
    /\ started = 0
    /\ adminClaims = NotLoaded
    /\ adminInv = [c \in ClaimIds |-> IdleAdminInv]

PosterChat == [type |-> "user-to-poster", creator_id |-> "u1", owner |-> "u2"]

SendIdle ==
    /\ dbMessages = 0
    /\ newMessageNotifs = [u \in Users |-> 0]
    /\ send = IdleSend

ChatPageIdle ==
    /\ messages = <<>>
    /\ polls = {}
    /\ rtQueue = {}
    /\ channel = "none"
    /\ mounted = FALSE

MessagingIdle == conv = PosterChat /\ SendIdle /\ ChatPageIdle

FormsIdle == form = NoForm

NoFilters == [category |-> {}, status |-> {}, start |-> NoDate, end |-> NoDate]

FiltersIdle == items = <<>> /\ filters = NoFilters /\ shown = NotComputed

SearchIdle == searchTerm = <<>> /\ results = NotComputed

BackupIdle == backupDir = {} /\ backupRun = NoBackupRun(0)

RestoreIdle == restore = NoRestore

ListenerIdle == authSession = NoSession /\ listener = Listening(NoSession)

DetailIdle == userClaims = <<>> /\ detail = [s \in Sessions |-> UnmountedDetail]

ConversationsIdle ==
    dbConversations = {} /\ convCall = [k \in ConvCalls |-> NoConvCall]

DashIdle == dash = DashboardMounted

LaterPartsIdle ==
    /\ SearchIdle /\ BackupIdle /\ RestoreIdle /\ ListenerIdle /\ DetailIdle
    /\ ConversationsIdle /\ DashIdle

\* ---- the owner's claim management: one session, other users claiming ----
InitClaims ==
    /\ dbClaim = [c \in ClaimIds |-> IF c = "c3" THEN NoRow ELSE "pending"]
    /\ dbItem \in {f \in [ItemIds -> {"lost", "found"}] : f["i2"] = "lost"}
    /\ dbNotif = {} /\ itemWrites = {}
    /\ ClaimPagesIdle /\ MessagingIdle /\ FormsIdle /\ FiltersIdle
    /\ LaterPartsIdle

NextClaims(S) ==
    \/ \E s \in S : PageLoad(s)
    \/ \E c \in ClaimIds : SubmitClaim(c)
    \/ \E s \in S, c \in ClaimIds : handleClaimAction(s, c)

SpecClaims == InitClaims /\ [][NextClaims({"s1"})]_vars

\* ---- the owner signed in on two devices ----
SpecOwnerSessions == InitClaims /\ [][NextClaims(Sessions)]_vars

\* ---- the administrator's claims review, other users claiming ----
InitAdmin ==
    /\ dbClaim \in [ClaimIds -> {NoRow, "pending"}]
    /\ dbItem \in {f \in [ItemIds -> {"lost", "found"}] : f["i2"] = "lost"}
    /\ dbNotif = {} /\ itemWrites = {}
    /\ ClaimPagesIdle /\ MessagingIdle /\ FormsIdle /\ FiltersIdle
    /\ LaterPartsIdle

NextAdmin ==
    \/ fetchClaims
    \/ \E c \in ClaimIds : SubmitClaim(c)
    \/ \E c \in ClaimIds : handleAction(c)

SpecAdmin == InitAdmin /\ [][NextAdmin]_vars

\* ---- sendMessage in every kind of conversation ----
Conversations ==
    [type : {"user-to-poster", "user-to-security"},
     creator_id : {"u1"}, owner : {"u1", "u2"}]

InitSend ==
    /\ conv \in Conversations
    /\ SendIdle /\ ChatPageIdle
    /\ BackendIdle /\ ClaimPagesIdle /\ FormsIdle /\ FiltersIdle
    /\ LaterPartsIdle

NextSend == sendMessage

SpecSend == InitSend /\ [][NextSend]_vars

\* ---- the chat page of one conversation while its creator sends messages ----
InitChat ==
    /\ MessagingIdle
    /\ BackendIdle /\ ClaimPagesIdle /\ FormsIdle /\ FiltersIdle
    /\ LaterPartsIdle

NextChat ==
    \/ SendStart("u1", 0)
    \/ MessageInsertReturns
    \/ RecipientResolved
    \/ MessageNotifyReturns
    \/ Mount
    \/ Unmount
    \/ PollTick
    \/ \E k \in 0..MaxMsgs, ok \in BOOLEAN : PollReturns(k, ok)
    \/ \E msg \in 1..MaxMsgs, again \in BOOLEAN : RealtimeDelivers(msg, again)
    \/ \E msg \in 1..MaxMsgs : RealtimeDrops(msg)

SpecChat == InitChat /\ [][NextChat]_vars

\* The interval keeps firing and polls keep succeeding; nothing is assumed of
\* the realtime channel, of the senders or of the page staying mounted.
LiveChat ==
    /\ SpecChat
    /\ WF_vars(PollTick)
    /\ SF_vars(\E k \in 0..MaxMsgs : PollReturns(k, TRUE))

\* ---- the forms that write items.status ----
InitItems ==
    /\ dbClaim = [c \in ClaimIds |-> NoRow]
    /\ dbItem \in [ItemIds -> ItemStatusValues \cup {NoRow}]
    /\ dbNotif = {} /\ itemWrites = {}
    /\ ClaimPagesIdle /\ MessagingIdle /\ FormsIdle /\ FiltersIdle
    /\ LaterPartsIdle

NextItems ==
    \/ \E item \in ItemIds : OpenReport(item)
    \/ \E item \in ItemIds : OpenEdit(item)
    \/ \E item \in ItemIds : OpenAdminEdit(item)
    \/ \E value \in AdminModalStatuses : SelectStatus(value)
    \/ SubmitReport
    \/ SubmitEdit
    \/ SaveAdminEdit
    \/ CloseForm

SpecItems == InitItems /\ [][NextItems]_vars

\* ---- the owner of an item: its claims and its edit page ----
NextOwner ==
    \/ NextClaims({"s1"})
    \/ OpenEdit(OwnerItem)
    \/ \E value \in ReportStatusOptions : SelectStatus(value)
    \/ SubmitEdit
    \/ CloseForm

SpecOwner == InitClaims /\ [][NextOwner]_vars

\* ---- the list filters, on every list and filter of the bounded sets ----
Keys == <<"K", "e", "y", "s">>
keys == <<"k", "e", "y", "s">>
BOOKS == <<"B", "O", "O", "K", "S">>
lost == <<"l", "o", "s", "t">>
found == <<"f", "o", "u", "n", "d">>
Lost == <<"L", "o", "s", "t">>
Secured == <<"S", "e", "c", "u", "r", "e", "d">>

ItemChoices ==
    [category : {Keys, Undefined},
     status : {lost, found},
     turn_in_to_security : BOOLEAN,
     date : {InvalidDate, 2}]

CategoryChoices == {keys, BOOKS}
StatusChoices == {Lost, Secured}
DateChoices == {NoDate, 1}

Lists == UNION {[1..n -> ItemChoices] : n \in 0..MaxItems}

InitFilter ==
    /\ items \in Lists
    /\ filters = NoFilters
    /\ shown = NotComputed
    /\ BackendIdle /\ ClaimPagesIdle /\ MessagingIdle /\ FormsIdle
    /\ LaterPartsIdle

NextFilter ==
    \/ ApplyFilters
    \/ \E cat \in CategoryChoices : ToggleCategory(cat)
    \/ \E status \in StatusChoices : ToggleStatus(status)
    \/ \E start, end \in DateChoices : SetDateRange(start, end)

SpecFilter == InitFilter /\ [][NextFilter]_vars

\* ---- the list search, on every list and term of the bounded sets ----
Key == <<"K", "e", "y">>
blue == <<"b", "l", "u", "e">>
lobby == <<"l", "o", "b", "b", "y">>

SearchItems ==
    [title : {Key, <<>>, Undefined},
     description : {blue, Undefined},
     location_description : {lobby, Undefined},
     category : {keys, Undefined}]

SearchTerms ==
    {<<>>, <<" ">>, <<" ", "K", "E", "Y", " ">>, <<"e", "y">>, <<"L", "U">>,
     <<"b", "b", "y", " ">>, <<"y", " ", "b">>}

SearchLists == UNION {[1..n -> SearchItems] : n \in 0..MaxItems}

InitSearch ==
    /\ items \in SearchLists
    /\ filters = NoFilters /\ shown = NotComputed
    /\ SearchIdle /\ BackupIdle /\ RestoreIdle /\ ListenerIdle /\ DetailIdle /\ ConversationsIdle
    /\ BackendIdle /\ ClaimPagesIdle /\ MessagingIdle /\ FormsIdle /\ DashIdle

NextSearch ==
    \/ \E term \in SearchTerms : SetSearchTerm(term)
    \/ ApplySearch

SpecSearch == InitSearch /\ [][NextSearch]_vars

\* ---- backup runs on a directory that scheduled daily runs have filled ----
\* The oldest daily backup of a directory.
OldestDaily(dir) ==
    CHOOSE f \in OfType(dir, "daily") : \A g \in OfType(dir, "daily") : f.n <= g.n

\* The directory after the scheduled run of a day: as the scheduled runs alone
\* leave it, or with a second backup made by hand on the day of the oldest
\* kept daily backup, which took a place among the 30.
InitBackup ==
    /\ \E d \in {418, 419, 420}, byHand \in BOOLEAN :
         LET dir == ScheduledDir(d)
             rest == dir \ {OldestDaily(dir)}
         IN /\ backupRun = NoBackupRun(d)
            /\ backupDir = IF byHand
                           THEN rest \cup {BackupFile("daily", OldestDaily(rest).day, 1)}
                           ELSE dir
    /\ items = <<>> /\ filters = NoFilters /\ shown = NotComputed
    /\ SearchIdle /\ RestoreIdle /\ ListenerIdle /\ DetailIdle /\ ConversationsIdle
    /\ BackendIdle /\ ClaimPagesIdle /\ MessagingIdle /\ FormsIdle /\ DashIdle

NextBackup == \E later \in {0, 1}, dumpOk \in BOOLEAN : BackupMain(later, dumpOk)

SpecBackup == InitBackup /\ [][NextBackup]_vars

\* ---- one run of the restore utility ----
SelectionAnswers ==
    {<<"1">>, <<"2">>, <<"3">>, <<"4">>, <<"0">>, <<"1", "2">>, <<"-", "1">>,
     <<"q">>, <<"Q">>, <<"x">>, <<>>, <<"2", "x">>, <<" ", "1">>}

ConfirmAnswers ==
    {yes, <<"Y", "E", "S">>, <<"Y", "e", "s">>, <<"y">>, <<"n", "o">>, <<>>,
     <<" ", "y", "e", "s">>}

InitRestore ==
    /\ RestoreIdle
    /\ items = <<>> /\ filters = NoFilters /\ shown = NotComputed
    /\ SearchIdle /\ BackupIdle /\ ListenerIdle /\ DetailIdle /\ ConversationsIdle
    /\ BackendIdle /\ ClaimPagesIdle /\ MessagingIdle /\ FormsIdle /\ DashIdle

NextRestore ==
    \/ \E n \in 0..MaxBackups : RestoreMain(n)
    \/ \E answer \in SelectionAnswers, dbUrl \in BOOLEAN, exists \in BOOLEAN :
          SelectionAnswered(answer, dbUrl, exists)
    \/ \E confirm \in ConfirmAnswers : ConfirmAnswered(confirm)
    \/ \E ok \in BOOLEAN : PsqlReturns(ok)

SpecRestore == InitRestore /\ [][NextRestore]_vars

\* ---- auth events reaching the listener of the root layout ----
InitListener ==
    /\ \E session \in AuthSessions :
         authSession = session /\ listener = Listening(session)
    /\ items = <<>> /\ filters = NoFilters /\ shown = NotComputed
    /\ SearchIdle /\ BackupIdle /\ RestoreIdle /\ DetailIdle /\ ConversationsIdle
    /\ BackendIdle /\ ClaimPagesIdle /\ MessagingIdle /\ FormsIdle /\ DashIdle

NextListener ==
    \/ \E session \in AuthSessions : AuthStateChange(session)
    \/ RefreshRenders

SpecListener == InitListener /\ [][NextListener]_vars

\* ---- one user claiming one item from two sessions ----
InitDetail ==
    /\ userClaims \in {<<>>, <<"pending">>, <<"rejected">>}
    /\ detail = [s \in Sessions |-> UnmountedDetail]
    /\ items = <<>> /\ filters = NoFilters /\ shown = NotComputed
    /\ SearchIdle /\ BackupIdle /\ RestoreIdle /\ ListenerIdle /\ ConversationsIdle
    /\ BackendIdle /\ ClaimPagesIdle /\ MessagingIdle /\ FormsIdle /\ DashIdle

NextDetail ==
    \/ \E s \in Sessions : DetailMount(s)
    \/ \E s \in Sessions : FetchClaimsReturns(s)
    \/ \E s \in Sessions : OpenClaimModal(s)
    \/ \E s \in Sessions, k \in Calls : handleClaim(s, k)
    \/ \E i \in 1..MaxClaims, action \in {"approve", "reject"} : OwnerResolves(i, action)

SpecDetail == InitDetail /\ [][NextDetail]_vars

\* ---- users starting chats about items ----
InitConversations ==
    /\ ConversationsIdle
    /\ items = <<>> /\ filters = NoFilters /\ shown = NotComputed
    /\ SearchIdle /\ BackupIdle /\ RestoreIdle /\ ListenerIdle /\ DetailIdle
    /\ BackendIdle /\ ClaimPagesIdle /\ MessagingIdle /\ FormsIdle /\ DashIdle

NextConversations == \E k \in ConvCalls : getOrCreateConversation(k)

SpecConversations == InitConversations /\ [][NextConversations]_vars

\* ---- the admin dashboard loading ----
InitDashboard ==
    /\ dash = DashboardMounted
    /\ items = <<>> /\ filters = NoFilters /\ shown = NotComputed
    /\ SearchIdle /\ BackupIdle /\ RestoreIdle /\ ListenerIdle /\ DetailIdle
    /\ ConversationsIdle
    /\ BackendIdle /\ ClaimPagesIdle /\ MessagingIdle /\ FormsIdle

NextDashboard ==
    \/ \E admin \in BOOLEAN : CheckAuthReturns(admin)
    \/ \E ok \in BOOLEAN : KpiQueryReturns(ok)
    \/ \E ok \in BOOLEAN : DashClaimsReturn(ok)
    \/ \E ok \in BOOLEAN : DashItemsReturn(ok)
    \/ \E ok \in BOOLEAN : StatsQueryReturns(ok)

SpecDashboard == InitDashboard /\ [][NextDashboard]_vars

\* Every request the page has sent is answered.
LiveDashboard == SpecDashboard /\ WF_vars(NextDashboard)

(***************************************************************************)
(* Properties of handleClaimAction                                         *)
(***************************************************************************)
\* The step in which the invocation of session s on claim c completes.
Completes(s, c) == inv[s][c].pc # "idle" /\ inv'[s][c].pc = "idle"

\* C1 (as stated): when an approve completes and every backend call it made
\* succeeded, the approved claim is approved in the backend, the item is
\* claimed, and every other claim of the item that was pending in the backend
\* when the approve started is rejected.
C1_ApproveCascadesToAllPending ==
    [][\A s \in Sessions, c \in ClaimIds :
         (Completes(s, c) /\ inv'[s][c].action = "approve" /\ ~inv'[s][c].anyErr)
         => /\ dbClaim'[c] = "approved"
            /\ dbItem'[OwnerItem] = "claimed"
            /\ \A d \in inv'[s][c].pend0 : dbClaim'[d] = "rejected"]_vars

\* C2: when the claim update of an approve succeeded and the item status
\* update returns an error, that step writes nothing to the backend (claims,
\* items and notifications are as before), the invocation ends there, and the
\* only claim row it has written is the approved one: no sibling is rejected
\* and nothing is rolled back.
C2_NoCompensatingWrite ==
    [][\A s \in Sessions, c \in ClaimIds :
         (inv[s][c].pc = "itemUpdate" /\ inv'[s][c].itemErr)
         => /\ dbClaim' = dbClaim
            /\ dbItem' = dbItem
            /\ dbNotif' = dbNotif
            /\ inv'[s][c].pc = "idle"
            /\ inv'[s][c].changed = {c}]_vars

\* C2 witness: an approve whose claim update succeeded and whose item update
\* failed has completed; the claim is approved, the item is not claimed and a
\* sibling that was pending is still pending.
C2_Witness ==
    \E s \in Sessions, c \in ClaimIds :
        /\ inv[s][c].ran /\ inv[s][c].itemErr /\ inv[s][c].pc = "idle"
        /\ dbClaim[c] = "approved"
        /\ dbItem[OwnerItem] # "claimed"
        /\ \E d \in inv[s][c].pend0 : dbClaim[d] = "pending"

\* C3 (as stated): when an invocation completes, every claim whose backend
\* status it changed (the claim acted on and each sibling it rejected) has had
\* a claim_update notification inserted by it.
C3_EveryChangedClaimNotified ==
    [][\A s \in Sessions, c \in ClaimIds :
         (Completes(s, c) /\ ~inv'[s][c].anyErr)
         => \A d \in inv'[s][c].changed :
               Notification(Claimer[d], d, "claim_update") \in dbNotif']_vars

\* C5 (as stated): when an invocation completes and some backend call it made
\* returned an error, the component's error message is a non-empty string.
C5_EveryBackendErrorSurfaced ==
    [][\A s \in Sessions, c \in ClaimIds :
         (Completes(s, c) /\ inv'[s][c].anyErr)
         => (view'[s].error # NullErr /\ view'[s].error # "")]_vars

(***************************************************************************)
(* Properties of AdminPage.handleAction                                    *)
(***************************************************************************)
\* C4 (as stated): when an administrator's approve completes and every
\* backend call it made succeeded, the claim's item is claimed and every other
\* claim of that item that was pending in the backend is rejected.
C4_AdminApproveCascades ==
    [][\A c \in ClaimIds :
         (/\ adminInv[c].pc # "idle" /\ adminInv'[c].pc = "idle"
          /\ adminInv'[c].action = "approve" /\ ~adminInv'[c].anyErr)
         => /\ dbItem'[ClaimItem[c]] = "claimed"
            /\ \A d \in adminInv'[c].pend0 : dbClaim'[d] = "rejected"]_vars

(***************************************************************************)
(* Properties of the chat page                                             *)
(***************************************************************************)
Displayed(m) == \E i \in 1..Len(messages) : messages[i] = m

\* C6: in every reachable state of the chat page, whatever the interleaving of
\* poll results and realtime deliveries, no two entries of the displayed
\* message list carry the same message id.
C6_NoDuplicateMessageIds ==
    \A i, j \in 1..Len(messages) : i # j => messages[i] # messages[j]

\* C6 witness: every stored message is on display and the realtime channel
\* holds an event for each of them: each has arrived by a poll or an earlier
\* delivery, and its (re)delivery leaves the list as it is.
C6_Witness ==
    /\ mounted /\ channel = "subscribed"
    /\ dbMessages >= 2
    /\ messages = Rows(dbMessages)
    /\ rtQueue = {m \in 1..dbMessages : TRUE}
    /\ \A m \in rtQueue : ReceivedMessage(messages, m) = messages

\* C7: under LiveChat (the interval keeps firing, polls keep succeeding), a
\* message stored for the conversation while the page is mounted is eventually
\* on display, unless the page is unmounted first; nothing is asked of the
\* realtime channel.
C7_PollingShowsEveryStoredMessage ==
    \A m \in 1..MaxMsgs :
        (mounted /\ m <= dbMessages) ~> (~mounted \/ Displayed(m))

\* C7 witness: the realtime channel could not be created (dummy channel), and
\* the mounted page displays every stored message.
C7_Witness ==
    /\ mounted /\ channel = "dummy"
    /\ dbMessages >= 2
    /\ \A m \in 1..dbMessages : Displayed(m)

\* C21 (as stated): while the chat page stays mounted, a message on display
\* is never removed from the list by a later poll result or realtime
\* delivery, a poll issued before the message was stored included.
C21_DisplayedMessageStaysDisplayed ==
    [][(mounted /\ mounted') =>
         \A m \in 1..MaxMsgs : Displayed(m) => Displayed(m)']_vars

(***************************************************************************)
(* Properties of sendMessage                                               *)
(***************************************************************************)
\* The completed call stored a message of a user-to-poster conversation, sent
\* by the creator or the item's owner, these two being different users, and no
\* backend call of it returned an error.
PosterChatMessageStored ==
    /\ send.pc = "done" /\ send.stored # 0
    /\ conv.type = "user-to-poster"
    /\ send.sender \in {conv.creator_id, conv.owner}
    /\ conv.creator_id # conv.owner
    /\ ~send.anyErr

OtherParticipant == IF send.sender = conv.creator_id THEN conv.owner ELSE conv.creator_id

\* C8: when sendMessage has stored a message of a user-to-poster conversation
\* sent by the creator or the item's owner (different users) and every backend
\* call succeeded, it has inserted a new_message notification for the other of
\* the two.
C8_PosterChatNotifiesOtherParticipant ==
    PosterChatMessageStored
    => /\ send.notified = OtherParticipant
       /\ newMessageNotifs[OtherParticipant] >= 1

\* C8 witness: the item's owner has written in a conversation another user
\* created, and the creator has the notification.
C8_Witness ==
    /\ PosterChatMessageStored
    /\ send.sender = conv.owner
    /\ newMessageNotifs[conv.creator_id] >= 1

(***************************************************************************)
(* Properties of the item forms                                            *)
(***************************************************************************)
\* C9 (as stated): every value a client has sent as items.status is one of
\* lost, found, claimed, archived.
C9_OnlyEnumStatusesWritten == itemWrites \subseteq {"lost", "found", "claimed", "archived"}

(***************************************************************************)
(* Properties of applyFilters                                              *)
(***************************************************************************)
EqualsIgnoringCase(a, b) ==
    /\ a # Undefined
    /\ Len(a) = Len(b)
    /\ \A i \in 1..Len(a) : ToLowerChar(a[i]) = ToLowerChar(b[i])

NoDateRange == filters.start = NoDate /\ filters.end = NoDate

CategorySelected(item) ==
    \/ filters.category = {}
    \/ \E cat \in filters.category : EqualsIgnoringCase(item.category, cat)

StatedKeep(item) ==
    /\ CategorySelected(item)
    /\ \/ filters.status = {}
       \/ \E status \in filters.status : EqualsIgnoringCase(item.status, status)

AmendedKeep(item) ==
    /\ CategorySelected(item)
    /\ \/ filters.status = {}
       \/ \E status \in filters.status :
            /\ ~EqualsIgnoringCase(status, secured)
            /\ EqualsIgnoringCase(item.status, status)
       \/ /\ item.turn_in_to_security
          /\ \E status \in filters.status : EqualsIgnoringCase(status, secured)

\* C10 (as stated): with no date range set, the list applyFilters returns is
\* the items whose category equals a selected category (or none is selected)
\* and whose status equals a selected status (or none is selected), ignoring
\* case, in their order.
C10_KeepsIffCategoryAndStatusEqual ==
    (shown.done /\ NoDateRange) => shown.list = SelectSeq(items, StatedKeep)

\* C10 (amended): with no date range set, applyFilters keeps an item exactly
\* when (no category is selected or its category equals a selected one,
\* ignoring case) and (no status is selected, or its status equals a selected
\* status other than 'secured', ignoring case, or 'secured' is selected and
\* the item was turned in to security).
C10_KeepsIffCategoryAndStatusOrSecured ==
    (shown.done /\ NoDateRange) => shown.list = SelectSeq(items, AmendedKeep)

\* C10 witness: with a category and 'Secured' selected and no date range, a
\* list of two items is filtered down to one, kept for its mixed-case category
\* and for having been turned in to security.
C10_Witness ==
    /\ shown.done /\ NoDateRange
    /\ filters.category # {} /\ Secured \in filters.status
    /\ Len(items) = 2 /\ Len(shown.list) = 1
    /\ shown.list[1].category = Keys /\ shown.list[1].turn_in_to_security

(***************************************************************************)
(* Properties of applySearch                                               *)
(***************************************************************************)
IsBlank(term) == \A i \in 1..Len(term) : term[i] = " "

\* term without its leading and trailing spaces, in lower case
Needle(term) ==
    LET first == CHOOSE i \in 1..Len(term) :
                     term[i] # " " /\ \A j \in 1..(i - 1) : term[j] = " "
        last == CHOOSE i \in 1..Len(term) :
                     term[i] # " " /\ \A j \in (i + 1)..Len(term) : term[j] = " "
    IN [k \in 1..(last - first + 1) |-> ToLowerChar(term[first + k - 1])]

\* needle occurs in the lower-cased text
Occurs(needle, text) ==
    /\ text # Undefined
    /\ \E at \in 1..Len(text) :
          /\ at + Len(needle) - 1 <= Len(text)
          /\ \A k \in 1..Len(needle) : ToLowerChar(text[at + k - 1]) = needle[k]

StatedHit(item) ==
    \/ Occurs(Needle(searchTerm), item.title)
    \/ Occurs(Needle(searchTerm), item.description)
    \/ Occurs(Needle(searchTerm), item.location_description)
    \/ Occurs(Needle(searchTerm), item.category)

\* C11: the list applySearch returns is the input list when the term is blank
\* or only spaces, and otherwise the items, in their order, one of whose
\* title, description, location description or category contains, in lower
\* case, the trimmed lower-cased term.
C11_SearchKeepsSubstringMatches ==
    results.done
    => results.list = IF IsBlank(searchTerm) THEN items
                      ELSE SelectSeq(items, StatedHit)

\* C11 witness: an upper-case term with spaces around it keeps the one item of
\* two that contains it, found in a field other than the title.
C11_Witness ==
    /\ results.done
    /\ ~IsBlank(searchTerm) /\ searchTerm # Needle(searchTerm)
    /\ Len(items) = 2 /\ Len(results.list) = 1
    /\ ~Occurs(Needle(searchTerm), results.list[1].title)

(***************************************************************************)
(* Properties of overlapping handleClaimAction invocations                 *)
(***************************************************************************)
NoActionInFlight == \A s \in Sessions, c \in ClaimIds : inv[s][c].pc = "idle"

ApprovedClaims(item) == {c \in ClaimIds : ClaimItem[c] = item /\ dbClaim[c] = "approved"}

\* C15 (as stated): once every handleClaimAction invocation on the claims of
\* an item has finished, however the invocations interleaved, at most one
\* claim of the item has backend status approved.
C15_AtMostOneApprovedClaim ==
    NoActionInFlight => Cardinality(ApprovedClaims(OwnerItem)) <= 1

\* The local list of a session agrees with the backend on every claim it holds.
LocalListMatchesBackend(s) ==
    \A d \in ClaimIds : view[s].claims[d] # Absent => view[s].claims[d] = dbClaim[d]

\* C17 (as stated): whenever handleClaimAction finishes in a single owner
\* session and no invocation is left running, the status of every claim in
\* the local list equals the claim's backend status, whether or not a
\* backend write failed.
C17_LocalListMatchesBackendAtFinish ==
    [][\A s \in Sessions, c \in ClaimIds :
         (Completes(s, c) /\ NoActionInFlight') => LocalListMatchesBackend(s)']_vars

\* C18 (as stated): once the backend status of an item is claimed, no
\* operation of its owner (submitting the edit form, acting on claims)
\* changes the status back to lost or found.
C18_ClaimedItemStaysClaimed ==
    [][\A item \in ItemIds :
         dbItem[item] = "claimed" => dbItem'[item] \notin {"lost", "found"}]_vars

(***************************************************************************)
(* Properties of handleClaim                                               *)
(***************************************************************************)
ActiveClaims == {i \in 1..Len(userClaims) : userClaims[i] \in {"pending", "approved"}}

\* C16 (as stated): after any sequence of handleClaim submissions by one user
\* on one item, the user has at most one claim on the item whose status is
\* pending or approved.
C16_AtMostOneActiveClaimPerUser == Cardinality(ActiveClaims) <= 1

(***************************************************************************)
(* Properties of getOrCreateConversation                                   *)
(***************************************************************************)
SameConversationAsked(a, b) ==
    /\ convCall[a].userId = convCall[b].userId
    /\ convCall[a].itemId = convCall[b].itemId
    /\ convCall[a].type = convCall[b].type

\* Both calls have finished, neither met a transport error, and both lookups
\* found no row: both looked up before either inserted.
Overlapped(a, b) ==
    /\ a # b /\ SameConversationAsked(a, b)
    /\ \A k \in {a, b} :
         /\ convCall[k].pc = "done"
         /\ ~convCall[k].existing
         /\ convCall[k].thrown \in {"none", "23505"}

\* C19 (as stated): when two getOrCreateConversation calls for the same user,
\* item and type both look up before either inserts, both return the same
\* conversation and neither fails.
C19_OverlappingCallsReturnSameConversation ==
    \A a, b \in ConvCalls :
        Overlapped(a, b) =>
            /\ convCall[a].thrown = "none" /\ convCall[b].thrown = "none"
            /\ convCall[a].returned = convCall[b].returned

\* C20: after any interleaving of getOrCreateConversation calls the backend
\* holds at most one conversation per item, creator and type.
C20_OneConversationPerItemCreatorType ==
    \A r1, r2 \in dbConversations :
        (r1.item_id = r2.item_id /\ r1.creator_id = r2.creator_id /\ r1.type = r2.type)
            => r1 = r2

\* Two overlapping calls for the same conversation have finished; the index
\* refused the second insert.
C20_Witness ==
    \E a, b \in ConvCalls :
        /\ Overlapped(a, b)
        /\ convCall[b].thrown = "23505"
        /\ Cardinality(ConversationsOf(convCall[a].itemId, convCall[a].type,
                                       convCall[a].userId)) = 1

(***************************************************************************)
(* Properties of the backup script                                         *)
(***************************************************************************)
\* C12 (as stated): when a backup run's cleanup completes without file-system
\* errors, the directory holds at most 30 daily, 12 weekly and 12 monthly
\* backups, and every backup the cleanup removed was created before every
\* backup of its type that it kept.
C12_RetainsMostRecentBackups ==
    [][(backupRun'.runs # backupRun.runs /\ backupRun'.cleaned /\ ~backupRun'.fsErr)
       => \A type \in BackupTypes :
            LET before == OfType(backupDir \cup {backupRun'.created}, type)
                kept == OfType(backupDir', type)
            IN /\ Cardinality(kept) <= Keep(type)
               /\ \A f \in kept, g \in before \ kept : g.n < f.n]_vars

(***************************************************************************)
(* Properties of the restore utility                                       *)
(***************************************************************************)
\* The answer is a decimal numeral and nothing else.
IsNumeral(answer) ==
    answer # Undefined /\ answer # <<>> /\ \A i \in 1..Len(answer) : IsDigit(answer[i])

Confirmed == EqualsIgnoringCase(restore.confirm, yes)

\* C13 (as stated): the restore command runs only after the selection was
\* the number of a listed backup and the confirmation equals "yes" ignoring
\* case; q, an out-of-range or non-numeric selection, or another
\* confirmation answer never leads to the command.
C13_RestoreOnlyAfterNumberAndYes ==
    restore.ran =>
        /\ IsNumeral(restore.answer)
        /\ DecimalValue(restore.answer) \in 1..restore.backups
        /\ Confirmed

\* C13 (amended): the restore command runs only after the selection began,
\* after optional white space and sign, with digits whose value is the number
\* of a listed backup (characters after the digits are ignored) and the
\* confirmation equals "yes" ignoring case.
C13_RestoreOnlyAfterLeadingNumberAndYes ==
    restore.ran =>
        /\ restore.answer # Undefined
        /\ toLowerCase(restore.answer) # q
        /\ ~parseInt(restore.answer).nan
        /\ parseInt(restore.answer).val \in 1..restore.backups
        /\ Confirmed

\* The restore command ran on a selection that is not a numeral.
C13_Witness ==
    /\ restore.ran
    /\ ~IsNumeral(restore.answer)
    /\ restore.confirm = <<"Y", "e", "s">>

(***************************************************************************)
(* Properties of SupabaseListener                                          *)
(***************************************************************************)
\* The event carried no session, or the token the server rendered with.
SameAsServer(event) ==
    IF event.session.present
    THEN event.session.access_token = event.server
    ELSE event.server \notin Tokens

\* C14: on every auth state change event the listener asks for a router
\* refresh if and only if the event's access token differs from the one the
\* server rendered with; an event without a session differs from a server
\* token that is present.
C14_RefreshIffTokenDiffers ==
    /\ [](listener.last.seen =>
             (listener.last.refreshed <=> ~SameAsServer(listener.last)))
    /\ [][listener'.events # listener.events =>
            /\ listener'.last.seen
            /\ listener'.last.server = listener.serverAccessToken
            /\ listener'.refreshes - listener.refreshes
                 = (IF listener'.last.refreshed THEN 1 ELSE 0)]_vars

\* A sign-out event reached the listener rendered with a token, and it refreshed.
C14_Witness ==
    /\ listener.last.seen
    /\ ~listener.last.session.present
    /\ listener.last.server \in Tokens
    /\ listener.last.refreshed
    /\ listener.refreshes = 2

(***************************************************************************)
(* Properties of the admin dashboard                                       *)
(***************************************************************************)
NoSectionLoading ==
    /\ ~dash.loadingKpis /\ ~dash.loadingClaims
    /\ ~dash.loadingItems /\ ~dash.loadingStats

\* C22 (as stated): under LiveDashboard (every request is answered), once the
\* admin role check succeeded and while no dashboard query has failed, each of
\* the four loading flags eventually becomes false.
C22_EverySectionLeavesLoading ==
    (dash.roleChecked /\ ~dash.failed) ~> (dash.failed \/ NoSectionLoading)

====
